---- MODULE Spec2Model ----
(***************************************************************************)
(* Model of psutil/arch/bsd/freebsd.c: psutil_get_proc_list (the process   *)
(* enumerator), psutil_get_cmd_args / psutil_get_cmdline (argument fetcher *)
(* and decoder) and psutil_pid_exists (liveness check).                    *)
(*                                                                         *)
(* One behaviour is one call of one of the three entry points.  The kernel *)
(* (sysctl, kill), the allocator (malloc) and the Python runtime           *)
(* (Py_BuildValue, PyList_Append) are the environment: each of their       *)
(* outcomes is a nondeterministic choice.  Every call the code makes to    *)
(* them is appended to the history variable log.                           *)
(***************************************************************************)
EXTENDS Integers, Sequences, FiniteSets

(* ---- bounds of the model ---- *)
MaxLen    == 2   \* largest byte length the kernel reports for the process table
MaxRetry  == 2   \* how many times the process table may outgrow the buffer
MaxArgmax == 3   \* largest value of KERN_ARGMAX
OobLen    == 0   \* bytes of memory modelled behind the largest argument buffer
MaxPid    == 1   \* pids range over -2..MaxPid
MaxByte   == 1   \* non-null bytes range over 1..MaxByte

(* ---- program constants ---- *)
NULL    == 0
EPERM   == 1
ESRCH   == 3
ENOMEM  == 12
EINVAL  == 22
RecSize == 2     \* sizeof(struct kinfo_proc), scaled down

SysctlErrnos == {ENOMEM, EPERM, EINVAL}   \* errno values a failing sysctl leaves
ArgsErrnos   == SysctlErrnos \cup {ESRCH}   \* errno values a failing KERN_PROC_ARGS query leaves
KillErrnos   == {ESRCH, EPERM, EINVAL}    \* errno values a failing kill leaves
Pids         == (-2)..MaxPid
Byte         == 0..MaxByte
MemLen       == MaxArgmax + OobLen

VARIABLES
  pc,          \* position in the running function
  pid,         \* the pid argument (psutil_get_cmdline, psutil_pid_exists)
  log,         \* history: every sysctl, malloc, free and kill issued so far
  err,         \* psutil_get_proc_list: err
  result,      \* psutil_get_proc_list: result
  done,        \* psutil_get_proc_list: done
  length,      \* psutil_get_proc_list: length
  procList,    \* psutil_get_proc_list: *procList
  procCount,   \* psutil_get_proc_list: *procCount
  ret,         \* value returned (psutil_get_proc_list, psutil_pid_exists), kill's result before that
  errno,       \* errno left by the last failing kill
  argmax,      \* psutil_get_cmd_args: argmax
  procargs,    \* psutil_get_cmd_args: procargs
  argstr,      \* psutil_get_cmdline: argstr
  argsize,     \* psutil_get_cmdline: argsize
  mem,         \* bytes at offsets 0..MemLen-1 from the start of the argument buffer
  pos,         \* psutil_get_cmdline: pos
  py_retlist,  \* psutil_get_cmdline: py_retlist, [null, items]
  readHi,      \* highest offset of the argument buffer read so far, -1 if none
  cmdline      \* value returned by psutil_get_cmdline, [null, items]

vars == <<pc, pid, log, err, result, done, length, procList, procCount, ret,
          errno, argmax, procargs, argstr, argsize, mem, pos, py_retlist,
          readHi, cmdline>>

plVars == <<err, result, done, length, procList, procCount>>
clVars == <<argmax, procargs, argstr, argsize, mem, pos, py_retlist, readHi, cmdline>>

(* ---- the history of environment calls ---- *)
Ev(op, res, len, ptr) == [op |-> op, res |-> res, len |-> len, ptr |-> ptr]

Idx(op) == {i \in 1..Len(log) : log[i].op = op}

\* the pointer malloc hands out next: buffers are numbered 1, 2, ... in allocation order
FreshPtr == Cardinality({i \in Idx("malloc") : log[i].ptr # NULL}) + 1

Allocated == {log[i].ptr : i \in Idx("malloc")} \ {NULL}

FreeCount(p) == Cardinality({i \in Idx("free") : log[i].ptr = p})

Live == {p \in Allocated : FreeCount(p) = 0}

PyNull == [null |-> TRUE, items |-> <<>>]

PyList(s) == [null |-> FALSE, items |-> s]

Init ==
  /\ pc \in {"pl_enter", "cl_enter", "pe_enter"}
  /\ pid \in (IF pc = "pl_enter" THEN {0} ELSE Pids)
  /\ log = <<>>
  /\ err = 0 /\ result = NULL /\ done = 0 /\ length = 0
  /\ procList = NULL /\ procCount = 0
  /\ ret = 0 /\ errno = 0
  /\ argmax = 0 /\ procargs = NULL /\ argstr = NULL /\ argsize = 0
  /\ mem = [i \in 1..MemLen |-> 0]
  /\ pos = 0 /\ py_retlist = PyNull /\ readHi = -1 /\ cmdline = PyNull

(***************************************************************************)
(* psutil_get_proc_list                                                    *)
(***************************************************************************)

\* lines 45-63: the preconditions hold (Init), *procCount = 0, result = NULL, done = 0
PL_Enter ==
  /\ pc = "pl_enter"
  /\ procCount' = 0
  /\ result' = NULL
  /\ done' = 0
  /\ pc' = "pl_size"
  /\ UNCHANGED <<pid, log, err, length, procList, ret, errno>>
  /\ UNCHANGED clVars

\* lines 65-71: assert(result == NULL); length = 0; sysctl with a NULL buffer.
\* On success the kernel stores the required length; on failure err = errno.
PL_SizeQuery ==
  /\ pc = "pl_size"
  /\ IF result # NULL
     THEN /\ pc' = "assert65"
          /\ UNCHANGED <<log, err, length>>
     ELSE \E e \in {0} \cup SysctlErrnos, L \in 0..MaxLen :
            /\ e # 0 => L = 0
            /\ length' = L
            /\ err' = e
            /\ log' = Append(log, Ev("sysctl_size", e, L, NULL))
            /\ pc' = "pl_alloc"
  /\ UNCHANGED <<pid, result, done, procList, procCount, ret, errno>>
  /\ UNCHANGED clVars

\* lines 77-78: err after the allocation returned p
AllocErrMut(p) == 0
AllocErr(p) == IF p = NULL THEN ENOMEM ELSE 0

\* lines 75-79: if (err == 0) result = malloc(length); malloc may return NULL
PL_Alloc ==
  /\ pc = "pl_alloc"
  /\ IF err = 0
     THEN \E p \in {NULL, FreshPtr} :
            /\ result' = p
            /\ err' = AllocErr(p)
            /\ log' = Append(log, Ev("malloc", 0, length, p))
     ELSE UNCHANGED <<result, err, log>>
  /\ pc' = "pl_fill"
  /\ UNCHANGED <<pid, done, length, procList, procCount, ret, errno>>
  /\ UNCHANGED clVars

\* line 91: the condition under which the buffer is thrown away and the loop repeats
RequeryRetryMut(e) == e # 0
RequeryRetry(e) == e = ENOMEM

\* lines 86-96: err after the re-query returned e (0 on success)
RequeryErrMut(e) == e
RequeryErr(e) == IF e # 0 /\ RequeryRetry(e) THEN 0 ELSE e

\* lines 88-90: done after the re-query returned e
RequeryDoneMut(e, d) == d
RequeryDone(e, d) == IF e = 0 THEN 1 ELSE d

\* lines 93-94: result after the re-query returned e
RequeryResultMut(e, r) == r
RequeryResult(e, r) == IF e # 0 /\ RequeryRetry(e) THEN NULL ELSE r

\* lines 84-85: length after the re-query: the kernel stores the number of
\* bytes it wrote, n, on success and on ENOMEM (comment at lines 56-60)
RequeryLengthMut(e, n, L) == L
RequeryLength(e, n, L) == IF e \in {0, ENOMEM} THEN n ELSE L

\* lines 83-97: sysctl with the buffer; n <= length is the number of bytes written
PL_Requery ==
  /\ pc = "pl_fill"
  /\ IF err = 0
     THEN \E e \in {0} \cup SysctlErrnos, n \in 0..length :
            /\ (e # 0 /\ RequeryRetry(e)) =>
                  Cardinality(Idx("sysctl_size")) <= MaxRetry
            /\ e \notin {0, ENOMEM} => n = length
            /\ length' = RequeryLength(e, n, length)
            /\ err' = RequeryErr(e)
            /\ done' = RequeryDone(e, done)
            /\ result' = RequeryResult(e, result)
            /\ log' = log \o <<Ev("sysctl_fill", e, n, result)>>
                          \o (IF e # 0 /\ RequeryRetry(e)
                              THEN <<Ev("free", 0, 0, result)>> ELSE <<>>)
            /\ pc' = IF e # 0 /\ RequeryRetry(e) /\ result = NULL
                     THEN "assert92" ELSE "pl_while"
     ELSE /\ pc' = "pl_while"
          /\ UNCHANGED <<length, err, done, result, log>>
  /\ UNCHANGED <<pid, procList, procCount, ret, errno>>
  /\ UNCHANGED clVars

\* line 98: while (err == 0 && ! done)
PL_While ==
  /\ pc = "pl_while"
  /\ pc' = IF err = 0 /\ done = 0 THEN "pl_size" ELSE "pl_cleanup"
  /\ UNCHANGED <<pid, log, ret, errno>>
  /\ UNCHANGED plVars
  /\ UNCHANGED clVars

\* lines 101-104: the buffer is released when the call fails
CleanupFreesMut(e, r) == FALSE
CleanupFrees(e, r) == e # 0 /\ r # NULL

\* line 107: the record count
CountOfMut(len) == (len + RecSize - 1) \div RecSize
CountOf(len) == len \div RecSize

\* lines 101-110: clean up, store *procList and *procCount, assert the
\* postcondition, return err
PL_Return ==
  /\ pc = "pl_cleanup"
  /\ LET r == IF CleanupFrees(err, result) THEN NULL ELSE result IN
       /\ log' = IF CleanupFrees(err, result)
                 THEN Append(log, Ev("free", 0, 0, result)) ELSE log
       /\ result' = r
       /\ procList' = r
       /\ procCount' = CountOf(length)
       /\ ret' = err
       /\ pc' = IF (err = 0) = (r # NULL) THEN "pl_done" ELSE "assert109"
  /\ UNCHANGED <<pid, err, done, length, errno>>
  /\ UNCHANGED clVars

(***************************************************************************)
(* psutil_get_cmd_args, called by psutil_get_cmdline                       *)
(***************************************************************************)

\* the byte at offset i from the start of the argument buffer
ByteAt(i) == mem[i + 1]

SetMin(S) == CHOOSE x \in S : \A y \in S : x <= y

\* lines 171-178: py_retlist = Py_BuildValue("[]"), which returns NULL when
\* the list cannot be allocated; a negative pid returns py_retlist at once
CL_Enter ==
  /\ pc = "cl_enter"
  /\ \E l \in {PyNull, PyList(<<>>)} :
       /\ py_retlist' = l
       /\ IF pid < 0
          THEN cmdline' = l /\ pc' = "cl_done"
          ELSE cmdline' = cmdline /\ pc' = "ca_argmax"
  /\ UNCHANGED <<pid, log, ret, errno>>
  /\ UNCHANGED plVars
  /\ UNCHANGED <<argmax, procargs, argstr, argsize, mem, pos, readHi>>

\* lines 138-139: psutil_get_cmd_args returns NULL at once when the
\* KERN_ARGMAX query returned e # 0
ArgmaxReturnsMut(e) == FALSE
ArgmaxReturns(e) == e # 0

\* lines 130-139: the KERN_ARGMAX query; on failure psutil_get_cmd_args
\* returns NULL and psutil_get_cmdline goes to error (lines 179-181)
CA_Argmax ==
  /\ pc = "ca_argmax"
  /\ \E e \in {0} \cup SysctlErrnos, m \in 0..MaxArgmax :
       /\ (e = 0) = (m > 0)
       /\ argmax' = m
       /\ log' = Append(log, Ev("sysctl_argmax", e, m, NULL))
       /\ pc' = IF ArgmaxReturns(e) THEN "cl_error" ELSE "ca_alloc"
  /\ UNCHANGED <<pid, ret, errno>>
  /\ UNCHANGED plVars
  /\ UNCHANGED <<procargs, argstr, argsize, mem, pos, py_retlist, readHi, cmdline>>

\* lines 142-146: procargs = malloc(argmax); NULL is returned when it fails
CA_Alloc ==
  /\ pc = "ca_alloc"
  /\ \E p \in {NULL, FreshPtr} :
       /\ procargs' = p
       /\ log' = Append(log, Ev("malloc", 0, argmax, p))
       /\ pc' = IF p = NULL THEN "cl_error" ELSE "ca_procargs"
  /\ UNCHANGED <<pid, ret, errno>>
  /\ UNCHANGED plVars
  /\ UNCHANGED <<argmax, argstr, argsize, mem, pos, py_retlist, readHi, cmdline>>

\* lines 157-164: the pointer psutil_get_cmd_args returns after the
\* KERN_PROC_ARGS query returned e into the buffer p
CmdArgsReturnMut(e, p) == p
CmdArgsReturn(e, p) == IF e = 0 THEN p ELSE NULL

\* lines 157-163: *argsize after the query returned e and left n in size;
\* a is its value before
ArgsizeAfterMut(e, n, a) == n
ArgsizeAfter(e, n, a) == IF e = 0 THEN n ELSE a

\* lines 151-165 and 179-181: the KERN_PROC_ARGS query with size = argmax.
\* On failure the buffer is freed and NULL returned.  On success the kernel
\* has written n <= argmax bytes; the bytes behind them keep whatever the
\* allocator left there, and the bytes from offset argmax on lie outside
\* the buffer: m gives all of them.
CA_ProcArgs ==
  /\ pc = "ca_procargs"
  /\ \E e \in {0} \cup ArgsErrnos, n \in 0..argmax, m \in [1..MemLen -> Byte] :
       /\ e # 0 => m = mem
       /\ log' = log \o <<Ev("sysctl_args", e, n, procargs)>>
                     \o (IF e # 0 THEN <<Ev("free", 0, 0, procargs)>> ELSE <<>>)
       /\ mem' = m
       /\ argsize' = ArgsizeAfter(e, n, argsize)
       /\ argstr' = CmdArgsReturn(e, procargs)
       /\ pc' = IF CmdArgsReturn(e, procargs) = NULL THEN "cl_error" ELSE "cl_loop"
  /\ UNCHANGED <<pid, ret, errno>>
  /\ UNCHANGED plVars
  /\ UNCHANGED <<argmax, procargs, pos, py_retlist, readHi, cmdline>>

(***************************************************************************)
(* psutil_get_cmdline: the decoding loop                                   *)
(***************************************************************************)

\* offsets from p on, inside the modelled memory, that hold a null byte
NulsFrom(p) == {i \in p..(MemLen - 1) : ByteAt(i) = 0}

\* the offset at which strlen(&argstr[p]) stops: the first null byte at or
\* after p; it is not bounded by argsize.  MemLen when there is none.
StrEnd(p) == IF NulsFrom(p) = {} THEN MemLen ELSE SetMin(NulsFrom(p))

\* line 188: the C string starting at offset p
CStrMut(p) == [k \in 1..(StrEnd(p) - p) |-> ByteAt(p + k)]
CStr(p) == [k \in 1..(StrEnd(p) - p) |-> ByteAt(p + k - 1)]

\* line 194: pos after one iteration
NextPosMut(p) == p + (StrEnd(p) - p)
NextPos(p) == p + (StrEnd(p) - p) + 1

\* lines 186-187: the loop runs while pos < argsize, for argsize > 0
LoopCondMut(p, a) == p <= a
LoopCond(p, a) == a > 0 /\ p < a

\* lines 186-196, one iteration: the string at pos is read up to its null
\* byte, built, appended, and pos steps behind the null byte.
\*   - no null byte in the modelled memory: the read runs off it and faults;
\*   - a read at an offset >= argmax is outside the buffer: it may fault;
\*   - Py_BuildValue or PyList_Append may fail: goto error;
\*   - PyList_Append on a NULL list dereferences NULL.
CL_Iter ==
  /\ pc = "cl_loop"
  /\ LoopCond(pos, argsize)
  /\ LET e == StrEnd(pos) IN
       IF e >= MemLen
       THEN /\ readHi' = MemLen - 1
            /\ pc' = "crashed"
            /\ UNCHANGED <<pos, py_retlist>>
       ELSE /\ readHi' = IF e > readHi THEN e ELSE readHi
            /\ \E o \in {"ok", "build_fails", "append_fails"}
                          \cup (IF e >= argmax THEN {"fault"} ELSE {}) :
                 CASE o = "fault" ->
                        pc' = "crashed" /\ UNCHANGED <<pos, py_retlist>>
                   [] o = "build_fails" ->
                        pc' = "cl_error" /\ UNCHANGED <<pos, py_retlist>>
                   [] o = "append_fails" ->
                        /\ pc' = IF py_retlist.null THEN "crashed" ELSE "cl_error"
                        /\ UNCHANGED <<pos, py_retlist>>
                   [] o = "ok" ->
                        IF py_retlist.null
                        THEN pc' = "crashed" /\ UNCHANGED <<pos, py_retlist>>
                        ELSE /\ py_retlist' = PyList(Append(py_retlist.items, CStr(pos)))
                             /\ pos' = NextPos(pos)
                             /\ pc' = "cl_loop"
  /\ UNCHANGED <<pid, log, ret, errno>>
  /\ UNCHANGED plVars
  /\ UNCHANGED <<argmax, procargs, argstr, argsize, mem, cmdline>>

\* lines 186-187 false, then 198-199: free(argstr); return py_retlist
CL_Finish ==
  /\ pc = "cl_loop"
  /\ ~LoopCond(pos, argsize)
  /\ log' = Append(log, Ev("free", 0, 0, argstr))
  /\ cmdline' = py_retlist
  /\ pc' = "cl_done"
  /\ UNCHANGED <<pid, ret, errno>>
  /\ UNCHANGED plVars
  /\ UNCHANGED <<argmax, procargs, argstr, argsize, mem, pos, py_retlist, readHi>>

\* lines 201-206: Py_DECREF(py_retlist) dereferences py_retlist; then the
\* buffer is freed if there is one, and NULL returned
CL_Error ==
  /\ pc = "cl_error"
  /\ IF py_retlist.null
     THEN pc' = "crashed" /\ UNCHANGED <<log, cmdline>>
     ELSE /\ log' = IF argstr # NULL
                    THEN Append(log, Ev("free", 0, 0, argstr)) ELSE log
          /\ cmdline' = PyNull
          /\ pc' = "cl_done"
  /\ UNCHANGED <<pid, ret, errno>>
  /\ UNCHANGED plVars
  /\ UNCHANGED <<argmax, procargs, argstr, argsize, mem, pos, py_retlist, readHi>>

(***************************************************************************)
(* psutil_pid_exists                                                       *)
(***************************************************************************)

\* line 219: the test that short-circuits the probe
PidShortCircuitMut(p) == p <= 0
PidShortCircuit(p) == p < 0

\* lines 219-220: a negative pid returns 0 without a probe
PE_Enter ==
  /\ pc = "pe_enter"
  /\ IF PidShortCircuit(pid)
     THEN ret' = 0 /\ pc' = "pe_done"
     ELSE ret' = ret /\ pc' = "pe_kill"
  /\ UNCHANGED <<pid, log, errno>>
  /\ UNCHANGED plVars
  /\ UNCHANGED clVars

\* line 221: ret = kill(pid, 0): 0 on success, -1 with errno set on failure
PE_Kill ==
  /\ pc = "pe_kill"
  /\ \E e \in {0} \cup KillErrnos :
       /\ ret' = IF e = 0 THEN 0 ELSE -1
       /\ errno' = e
       /\ log' = Append(log, Ev("kill", e, 0, NULL))
  /\ pc' = "pe_test"
  /\ UNCHANGED pid
  /\ UNCHANGED plVars
  /\ UNCHANGED clVars

\* lines 222-233: the value returned for kill's return value r; the tests
\* compare r itself, not errno, with ESRCH and EPERM
PidExistsResultMut(r) == IF r = 0 THEN 1 ELSE 0
PidExistsResult(r) ==
  IF r = 0 THEN 1
  ELSE IF r = ESRCH THEN 0
  ELSE IF r = EPERM THEN 1
  ELSE -1

\* lines 222-233
PE_Return ==
  /\ pc = "pe_test"
  /\ ret' = PidExistsResult(ret)
  /\ pc' = "pe_done"
  /\ UNCHANGED <<pid, log, errno>>
  /\ UNCHANGED plVars
  /\ UNCHANGED clVars

Next ==
  \/ PL_Enter \/ PL_SizeQuery \/ PL_Alloc \/ PL_Requery \/ PL_While \/ PL_Return
  \/ CL_Enter \/ CA_Argmax \/ CA_Alloc \/ CA_ProcArgs
  \/ CL_Iter \/ CL_Finish \/ CL_Error
  \/ PE_Enter \/ PE_Kill \/ PE_Return

Spec == Init /\ [][Next]_vars

(***************************************************************************)
(* Properties                                                              *)
(***************************************************************************)

SetMax(S) == CHOOSE x \in S : \A y \in S : y <= x

\* the kernel queries psutil_get_proc_list has issued, as positions of log
QueryIdx == Idx("sysctl_size") \cup Idx("sysctl_fill")

\* psutil_get_proc_list has returned
PLReturned == pc = "pl_done"

\* the last size query and the last re-query issued
LastSize == log[SetMax(Idx("sysctl_size"))]
LastFill == log[SetMax(Idx("sysctl_fill"))]

\* the re-query at position i failed because the buffer was too small
Resized(i) == log[i].op = "sysctl_fill" /\ log[i].res = ENOMEM

\* a query failure other than that one
Fatal(i) ==
  \/ log[i].op = "sysctl_size" /\ log[i].res # 0
  \/ log[i].op = "sysctl_fill" /\ log[i].res \notin {0, ENOMEM}

\* C1: psutil_pid_exists(pid), pid >= 0: when kill(pid, 0) fails with ESRCH
\* the value returned is 0 (Dead).
C1_EsrchIsDead ==
  (pc = "pe_done" /\ pid >= 0 /\ errno = ESRCH) => ret = 0

\* C2: psutil_pid_exists(pid), pid >= 0: when kill(pid, 0) fails with EPERM
\* the value returned is 1 (Alive).
C2_EpermIsAlive ==
  (pc = "pe_done" /\ pid >= 0 /\ errno = EPERM) => ret = 1

\* C3: a re-query that fails with ENOMEM is followed at once by the release
\* of its buffer and then, before anything else, by a fresh NULL-buffer size
\* query; the call never returns on that failure, so an error returned comes
\* from a later failing call, and once a re-query succeeds the call returns 0.
C3_ResizeRetry ==
  /\ pc # "assert92"
  /\ \A i \in Idx("sysctl_fill") :
       Resized(i) =>
         /\ i + 1 <= Len(log)
         /\ log[i + 1] = Ev("free", 0, 0, log[i].ptr)
         /\ i + 2 <= Len(log) =>
              (log[i + 2].op = "sysctl_size" /\ log[i + 2].ptr = NULL)
         /\ pc \in {"pl_cleanup", "pl_done"} => i + 2 <= Len(log)
  /\ (PLReturned /\ Idx("sysctl_fill") # {} /\ LastFill.res = 0) => ret = 0
  /\ (PLReturned /\ ret # 0) =>
        \E i \in 1..Len(log) :
          /\ \A j \in QueryIdx : j <= i
          /\ \/ Fatal(i) /\ ret = log[i].res
             \/ log[i].op = "malloc" /\ log[i].ptr = NULL

C3_Witness ==
  /\ PLReturned /\ ret = 0
  /\ \E i \in Idx("sysctl_fill") : Resized(i)
  /\ Cardinality(Idx("sysctl_size")) >= 2

\* C4: a failing size query (any errno, ENOMEM included) and a re-query
\* failing with an errno other than ENOMEM are the last query of the call,
\* and the call returns that errno; a size query other than the first is
\* issued only right after a re-query that failed with ENOMEM.
C4_FatalErrors ==
  /\ \A i \in QueryIdx :
       Fatal(i) =>
         /\ \A j \in QueryIdx : j <= i
         /\ PLReturned => ret = log[i].res
  /\ \A i \in Idx("sysctl_size") :
       i > 1 =>
         LET before == {j \in QueryIdx : j < i} IN
           before # {} /\ Resized(SetMax(before))

C4_Witness ==
  /\ PLReturned /\ ret = EPERM
  /\ Cardinality(Idx("sysctl_size")) >= 2
  /\ LastFill.res = EPERM

\* C5: on every exit psutil_get_proc_list returns 0 exactly when *procList
\* is not NULL: the assertion of line 109 never fails.
C5_Postcondition ==
  /\ pc # "assert109"
  /\ PLReturned => ((ret = 0) <=> (procList # NULL))

C5_Witness ==
  /\ PLReturned /\ ret = 0 /\ procList # NULL
  /\ LastSize.len = 0

\* the positions of psutil_get_proc_list
PLpcs == {"pl_enter", "pl_size", "pl_alloc", "pl_fill", "pl_while",
          "pl_cleanup", "pl_done", "assert65", "assert92", "assert109"}

\* C6: in psutil_get_proc_list at most one buffer is allocated and not yet
\* freed, result is NULL at the start of every iteration, no buffer is
\* freed twice, and on return the only buffer left is the one returned on
\* success: none on failure.
C6_BufferLinearity ==
  pc \in PLpcs =>
    /\ Cardinality(Live) <= 1
    /\ pc # "assert65"
    /\ pc = "pl_size" => (result = NULL /\ Live = {})
    /\ \A p \in Allocated : FreeCount(p) <= 1
    /\ \A i \in Idx("free") : log[i].ptr \in Allocated
    /\ PLReturned =>
         /\ ret # 0 => Live = {}
         /\ ret = 0 => Live = {procList}

C6_Witness ==
  /\ PLReturned /\ ret # 0
  /\ Cardinality(Allocated) >= 2
  /\ Live = {}

\* C7 as stated: on success the count times the record size is exactly the
\* number of bytes the kernel returned.
C7_CountExact ==
  (PLReturned /\ ret = 0) => procCount * RecSize = LastFill.len

\* C7 as amended: on success the count is the number of whole records in
\* the bytes the kernel returned, the remainder being dropped.
C7_CountFloor ==
  (PLReturned /\ ret = 0) =>
    /\ procCount * RecSize <= LastFill.len
    /\ LastFill.len < (procCount + 1) * RecSize

C7_Witness ==
  /\ PLReturned /\ ret = 0
  /\ LastFill.len % RecSize # 0
  /\ procCount * RecSize < LastFill.len

\* C8: on success *procCount comes from the length the last, successful
\* re-query wrote back, not from the length its size query reported nor from
\* a length of an earlier iteration.
C8_CountFromActual ==
  (PLReturned /\ ret = 0) =>
    /\ length = LastFill.len
    /\ procCount = LastFill.len \div RecSize

C8_Witness ==
  /\ PLReturned /\ ret = 0
  /\ LastFill.len \div RecSize < LastSize.len \div RecSize
  /\ \E i \in Idx("sysctl_fill") :
       Resized(i) /\ log[i].len \div RecSize # LastFill.len \div RecSize

\* what the caller sees when the allocation failed after a size query that
\* reported L bytes
AllocFailureOutcomes == {<<ENOMEM, NULL, L \div RecSize>> : L \in 0..MaxLen}

\* the allocation at position i failed
AllocFailed(i) == log[i].op = "malloc" /\ log[i].ptr = NULL

\* C9 as stated: a failed allocation ends the call without a retry, and what
\* the caller then sees differs from what it sees after any failed query.
C9_AllocFailureDistinct ==
  pc \in PLpcs =>
    /\ \A i \in Idx("malloc") : AllocFailed(i) => i = Len(log)
    /\ (PLReturned /\ ret # 0 /\ \E i \in QueryIdx : Fatal(i)) =>
          <<ret, procList, procCount>> \notin AllocFailureOutcomes

\* C9 as amended: a failed allocation is the last call of
\* psutil_get_proc_list to its environment (no retry, no further query) and
\* the call returns ENOMEM with a NULL list.
C9_AllocFailure ==
  pc \in PLpcs =>
    \A i \in Idx("malloc") :
      AllocFailed(i) =>
        /\ i = Len(log)
        /\ PLReturned => (ret = ENOMEM /\ procList = NULL)

C9_Witness ==
  /\ PLReturned
  /\ Len(log) > 0 /\ AllocFailed(Len(log))
  /\ Cardinality(Idx("sysctl_size")) >= 2

\* the kernel wrote a blob whose last byte is not a null byte
Truncated == argstr # NULL /\ argsize > 0 /\ ByteAt(argsize - 1) # 0

\* the offset at which the last segment of the blob starts
LastSegStart ==
  LET nuls == {i \in 0..(argsize - 1) : ByteAt(i) = 0} IN
    IF nuls = {} THEN 0 ELSE SetMax(nuls) + 1

\* C10: when the last segment of the blob has no null byte, the decoding
\* loop reads no byte at an offset >= argsize, and the last argument of the
\* list returned is the bytes from the start of that segment up to argsize.
C10_TruncatedBlobSafe ==
  (pc \in {"cl_loop", "cl_error", "cl_done", "crashed"} /\ Truncated) =>
    /\ readHi < argsize
    /\ (pc = "cl_done" /\ ~cmdline.null) =>
         /\ cmdline.items # <<>>
         /\ cmdline.items[Len(cmdline.items)] =
              [k \in 1..(argsize - LastSegStart) |-> ByteAt(LastSegStart + k - 1)]

\* the bytes the kernel wrote: offsets 0..argsize-1
Blob == SubSeq(mem, 1, argsize)

\* the blob built from the strings of S: each followed by a null byte
RECURSIVE Encode(_)
Encode(S) == IF S = <<>> THEN <<>> ELSE S[1] \o <<0>> \o Encode(Tail(S))

\* no string of S holds a null byte
NoNul(S) == \A i \in 1..Len(S) : \A k \in 1..Len(S[i]) : S[i][k] # 0

\* the kernel wrote a blob that is empty or ends with a null byte
WellFormed == argstr # NULL /\ (argsize = 0 \/ ByteAt(argsize - 1) = 0)

\* C11: when the blob is the encoding of a list S of null-free strings, the
\* strings appended so far are null-free and encode to the part of the blob
\* before pos, and the list returned encodes to the whole blob: it is S, in
\* order (Encode is one-to-one on null-free strings).
C11_RoundTrip ==
  (pc \in {"cl_loop", "cl_error", "cl_done"} /\ WellFormed /\ ~py_retlist.null) =>
    /\ NoNul(py_retlist.items)
    /\ pos <= argsize
    /\ Encode(py_retlist.items) = SubSeq(mem, 1, pos)
    /\ (pc = "cl_done" /\ ~cmdline.null) => Encode(cmdline.items) = Blob

C11_Witness ==
  /\ pc = "cl_done" /\ ~cmdline.null /\ WellFormed
  /\ Len(cmdline.items) >= 2
  /\ \E i \in 1..Len(cmdline.items) : cmdline.items[i] = <<>>
  /\ \E i \in 1..Len(cmdline.items) : cmdline.items[i] # <<>>

\* the positions of psutil_pid_exists
PEpcs == {"pe_enter", "pe_kill", "pe_test", "pe_done"}

\* C12: psutil_pid_exists never issues more than one probe; when it has
\* returned, a negative pid has given 0 with no probe issued and a pid >= 0
\* has had exactly one probe.
C12_NegativePid ==
  pc \in PEpcs =>
    /\ Cardinality(Idx("kill")) <= 1
    /\ pid < 0 => Idx("kill") = {}
    /\ (pc = "pe_done" /\ pid < 0) => ret = 0
    /\ (pc = "pe_done" /\ pid >= 0) => Cardinality(Idx("kill")) = 1

C12_Witness ==
  /\ pc = "pe_done" /\ pid < 0
  /\ ret = 0 /\ log = <<>>

\* C13: psutil_pid_exists(pid), pid >= 0: when kill fails with an errno
\* other than ESRCH and EPERM the value returned is -1, and errno, from
\* which line 230 builds the exception, is still the errno of the probe.
C13_ErrorSurfaced ==
  (pc = "pe_done" /\ pid >= 0 /\ errno \notin {0, ESRCH, EPERM}) =>
    /\ ret = -1
    /\ Len(log) = 1 /\ log[1] = Ev("kill", errno, 0, NULL)

C13_Witness ==
  /\ pc = "pe_done" /\ pid >= 0
  /\ errno = EINVAL /\ ret = -1

\* the positions of psutil_get_cmdline and psutil_get_cmd_args
CLpcs == {"cl_enter", "ca_argmax", "ca_alloc", "ca_procargs", "cl_loop",
          "cl_error", "cl_done", "crashed"}

\* the KERN_PROC_ARGS query at position i of log failed
ArgsFailed(i) == log[i].op = "sysctl_args" /\ log[i].res # 0

\* C14: in psutil_get_cmdline only an allocated buffer is freed and none is
\* freed twice; when the call has returned, the buffer, if one was
\* allocated, has been freed exactly once; and after a failure in
\* psutil_get_cmd_args its caller holds no buffer (argstr is NULL).
C14_BufferRelease ==
  pc \in CLpcs =>
    /\ \A i \in Idx("free") :
         \E j \in Idx("malloc") : j < i /\ log[j].ptr = log[i].ptr /\ log[i].ptr # NULL
    /\ \A p \in Allocated : FreeCount(p) <= 1
    /\ pc = "cl_done" => \A p \in Allocated : FreeCount(p) = 1
    /\ (\E i \in 1..Len(log) :
          \/ ArgsFailed(i)
          \/ log[i].op = "sysctl_argmax" /\ log[i].res # 0
          \/ log[i].op = "malloc" /\ log[i].ptr = NULL) => argstr = NULL

C14_Witness ==
  /\ pc = "cl_done" /\ cmdline.null
  /\ argstr # NULL /\ Len(py_retlist.items) >= 1
  /\ FreeCount(argstr) = 1

\* C15: psutil_get_cmd_args issues each of its two queries and its
\* allocation at most once; the allocation comes only after a successful
\* KERN_ARGMAX query, and the KERN_PROC_ARGS query only after that and a
\* successful allocation.
C15_QueryProtocol ==
  pc \in CLpcs =>
    /\ Cardinality(Idx("sysctl_argmax")) <= 1
    /\ Cardinality(Idx("sysctl_args")) <= 1
    /\ Cardinality(Idx("malloc")) <= 1
    /\ \A k \in Idx("malloc") :
         \E j \in Idx("sysctl_argmax") : j < k /\ log[j].res = 0
    /\ \A i \in Idx("sysctl_args") :
         \E j \in Idx("sysctl_argmax"), k \in Idx("malloc") :
           /\ j < k /\ k < i
           /\ log[j].res = 0
           /\ log[k].ptr # NULL /\ log[i].ptr = log[k].ptr

C15_Witness ==
  /\ pc = "cl_done"
  /\ Len(log) >= 3
  /\ log[1].op = "sysctl_argmax" /\ log[2].op = "malloc" /\ log[3].op = "sysctl_args"

EmptyBlobReturned ==
  /\ pc = "cl_done"
  /\ \E i \in Idx("sysctl_args") : log[i].res = 0
  /\ argsize = 0

\* C17 as stated: a fetch that succeeds with argsize = 0 makes
\* psutil_get_cmdline return an empty list, with no byte of the buffer read.
C17_EmptyBlobEmptyList ==
  EmptyBlobReturned => (cmdline = PyList(<<>>) /\ readHi = -1)

\* C17 as amended: a fetch that succeeds with argsize = 0 makes
\* psutil_get_cmdline return what Py_BuildValue("[]") gave it at line 174,
\* untouched: the empty list when it was allocated, NULL when it was not;
\* no byte of the buffer is read and the buffer is freed.
C17_EmptyBlob ==
  EmptyBlobReturned =>
    /\ readHi = -1 /\ pos = 0
    /\ cmdline = (IF py_retlist.null THEN PyNull ELSE PyList(<<>>))
    /\ FreeCount(argstr) = 1

C17_Witness ==
  /\ EmptyBlobReturned
  /\ cmdline = PyList(<<>>)
  /\ readHi = -1

(***************************************************************************)
(* psutil_get_proc_list on its own, with the fairness of a running         *)
(* program: a call that can take its next step takes it.  That the process *)
(* table outgrows the buffer only finitely often is the guard MaxRetry of   *)
(* PL_Requery.                                                             *)
(***************************************************************************)
InitPL == Init /\ pc = "pl_enter"

NextPL ==
  \/ PL_Enter \/ PL_SizeQuery \/ PL_Alloc \/ PL_Requery \/ PL_While \/ PL_Return

FairPL == InitPL /\ [][NextPL]_vars /\ WF_vars(NextPL)

\* the calls of the iteration that starts with the size query at position i
IterEvents(i) ==
  {j \in (i + 1)..Len(log) : \A k \in Idx("sysctl_size") : k <= i \/ k > j}

\* the iteration that starts at position i ends the loop: its size query or
\* its allocation failed, or its re-query did not fail with ENOMEM
Exits(i) ==
  \/ log[i].res # 0
  \/ \E j \in IterEvents(i) : AllocFailed(j)
  \/ \E j \in IterEvents(i) : log[j].op = "sysctl_fill" /\ log[j].res # ENOMEM

\* every iteration has one size query, at most one allocation and at most
\* one re-query; an iteration that is followed by another one does not
\* exit; the loop is left only from an iteration that exits
IterationShape ==
  /\ pc \in {"pl_alloc", "pl_fill", "pl_while", "pl_cleanup", "pl_done"} =>
       Idx("sysctl_size") # {}
  /\ \A i \in Idx("sysctl_size") :
       /\ Cardinality({j \in IterEvents(i) : log[j].op = "malloc"}) <= 1
       /\ Cardinality({j \in IterEvents(i) : log[j].op = "sysctl_fill"}) <= 1
       /\ (\E k \in Idx("sysctl_size") : k > i) => ~Exits(i)
  /\ pc \in {"pl_cleanup", "pl_done"} => Exits(SetMax(Idx("sysctl_size")))

\* C18: psutil_get_proc_list, once entered, returns; every iteration of its
\* loop issues one size query, at most one allocation and at most one
\* re-query, and the loop is left in the first iteration whose size query
\* or allocation fails or whose re-query does not fail with ENOMEM.
C18_Termination ==
  /\ [](pc \in PLpcs => IterationShape)
  /\ (pc = "pl_enter") ~> (pc = "pl_done")

C18_Witness ==
  /\ pc = "pl_done"
  /\ Cardinality(Idx("sysctl_size")) = MaxRetry + 1
  /\ ret = 0

(***************************************************************************)
(* psutil_get_cmdline on its own, with the fairness of a running program.  *)
(***************************************************************************)
InitCL == Init /\ pc = "cl_enter"

NextCL ==
  \/ CL_Enter \/ CA_Argmax \/ CA_Alloc \/ CA_ProcArgs
  \/ CL_Iter \/ CL_Finish \/ CL_Error

FairCL == InitCL /\ [][NextCL]_vars /\ WF_vars(NextCL)

\* the null bytes of the blob
BlobNuls == {i \in 0..(argsize - 1) : ByteAt(i) = 0}

\* the length of the string that starts at offset p of a well-formed blob
BlobStrLen(p) == SetMin({i \in BlobNuls : i >= p}) - p

\* the decoding loop is running over a blob that ends with a null byte
Scanning == pc = "cl_loop" /\ WellFormed /\ argsize > 0

\* C19: over a blob whose last byte is null, every iteration of the loop
\* that completes moves pos forward by the length of the current string
\* plus one and appends one string; pos never passes argsize; the loop
\* ends, and when it has run to its end pos is argsize and the number of
\* iterations, one per string appended, is the number of null bytes.
C19_DecoderProgress ==
  /\ []((pc \in {"cl_loop", "cl_error", "cl_done"} /\ WellFormed) =>
          /\ pos <= argsize
          /\ (pc = "cl_done" /\ ~cmdline.null) =>
               /\ pos = argsize
               /\ Len(cmdline.items) = Cardinality(BlobNuls))
  /\ [][(Scanning /\ pc' = "cl_loop") =>
          /\ pos' = pos + BlobStrLen(pos) + 1
          /\ pos' > pos
          /\ Len(py_retlist'.items) = Len(py_retlist.items) + 1]_vars
  /\ Scanning ~> (pc # "cl_loop")

C19_Witness ==
  /\ pc = "cl_done" /\ ~cmdline.null
  /\ WellFormed /\ argsize = MaxArgmax
  /\ pos = argsize
  /\ Len(cmdline.items) >= 2

\* C20: when psutil_get_proc_list returns an error the count stored in
\* *procCount is 0, and a count other than 0 comes with a list.
C20_CountZeroOnFailure ==
  PLReturned =>
    /\ ret # 0 => procCount = 0
    /\ procCount # 0 => procList # NULL

====
